---- MODULE Spec2Model ----
(***************************************************************************)
(* OrgChar retrieval and indexing subsystem: the VectorStore               *)
(* (src/src/orgchar/vector_store.py), the RAGSystem orchestrator           *)
(* (src/src/orgchar/rag_system.py) and the DocumentProcessor directory     *)
(* pipeline (src/src/orgchar/document_processor.py), as a state machine    *)
(* over one RAGSystem instance, the persisted index directory and the      *)
(* knowledge base directory; SpecWeb adds a second web session             *)
(* (src/src/orgchar/streamlit_app.py) and the steps of save_index,         *)
(* SpecConfig the configurations of src/src/orgchar/config.py, SpecLoader  *)
(* the file loaders, SpecBot the Discord bot                               *)
(* (src/src/orgchar/discord_bot.py) and SpecAnswer answer_question.        *)
(***************************************************************************)
EXTENDS Integers, Sequences, FiniteSets, TLC

VARIABLES
    vector_store,   \* the VectorStore instance: embedding_model and self.vector_store
    disk,           \* VECTOR_DB_PATH: the faiss_index directory and metadata.pkl
    kb,             \* KNOWLEDGE_BASE_PATH: the files present in the directory
    last,           \* the last call: its name, arguments, outcome and the calls it made
    addLog,         \* lists appended by add_documents since the store was uninitialized
                    \* (kept by the calls on the one instance, not by the web sessions)
    peer,           \* the VectorStore of a second RAGSystem (another web session)
    pc,             \* per session: the call in progress and the step it is about to take
    config,         \* the Config the process loaded: CHUNK_SIZE and CHUNK_OVERLAP
    rag_loaded      \* OrgCharBot.rag_loaded of the Discord bot process

vars == <<vector_store, disk, kb, last, addLog, peer, pc, config, rag_loaded>>

----------------------------------------------------------------------------
(* Bounds *)

\* the most records the callers of create_index and add_documents make one
\* index hold, and the most documents handed to chunk_documents at once
MaxDocs == 2
\* the largest k a search asks for
MaxK == 2

----------------------------------------------------------------------------
(* Configuration (config.py) *)

CHUNK_SIZE == 1000
CHUNK_OVERLAP == 200
EMBEDDING_MODEL == "sentence-transformers/all-MiniLM-L6-v2"

\* Config as loaded with neither variable set in the environment
DefaultConfig == [CHUNK_SIZE |-> CHUNK_SIZE, CHUNK_OVERLAP |-> CHUNK_OVERLAP]

\* Values the environment can give CHUNK_SIZE and CHUNK_OVERLAP; int(os.getenv)
\* takes any of them, whatever their relation
EnvChunkSizes == {20, CHUNK_SIZE}

EnvChunkOverlaps == {0, 5, 20, 25, CHUNK_OVERLAP}

Configs == [CHUNK_SIZE : EnvChunkSizes, CHUNK_OVERLAP : EnvChunkOverlaps]

----------------------------------------------------------------------------
(* Files and chunks *)

\* Files that can be present under KNOWLEDGE_BASE_PATH, with the length of the
\* text each yields and whether loading it raises.
Files == {"a.txt", "e.txt"}

\* Files a directory handed to load_documents_from_directory can hold: text
\* (a.txt, B.TXT), empty (e.txt), whitespace only (w.md), not valid UTF-8
\* (bad.txt), a PDF of two pages (p.pdf), a PDF whose second page fails text
\* extraction (x.pdf), a PDF of one scanned page without text (s.pdf), a file
\* PdfReader rejects (c.pdf) and a format that is not supported (n.docx)
TreeFiles == {"a.txt", "e.txt", "w.md", "bad.txt", "B.TXT", "p.pdf", "x.pdf",
              "s.pdf", "c.pdf", "n.docx"}

FileLen(f) ==
    IF f = "a.txt" THEN 44 ELSE IF f = "u.pdf" THEN 30
    ELSE IF f = "B.TXT" THEN 10 ELSE IF f = "p.pdf" THEN 5
    ELSE IF f = "w.md" THEN 3 ELSE IF f = "s.pdf" THEN 1 ELSE 0

\* file_path.suffix
suffix(f) ==
    IF f \in {"a.txt", "e.txt", "bad.txt"} THEN ".txt"
    ELSE IF f = "B.TXT" THEN ".TXT"
    ELSE IF f = "w.md" THEN ".md"
    ELSE IF f = "n.docx" THEN ".docx"
    ELSE ".pdf"

\* str.lower on a suffix
lower(s) == IF s = ".TXT" THEN ".txt" ELSE s

\* file_path.suffix[1:].upper()
FileType(f) ==
    LET s == suffix(f)
    IN  IF s \in {".txt", ".TXT"} THEN "TXT"
        ELSE IF s = ".md" THEN "MD"
        ELSE IF s = ".docx" THEN "DOCX"
        ELSE "PDF"

supported_extensions == {".pdf", ".txt", ".md"}

\* rglob order, fixed for an unchanged directory
FileOrder == <<"a.txt", "e.txt", "w.md", "bad.txt", "B.TXT", "p.pdf", "x.pdf",
               "s.pdf", "c.pdf", "n.docx">>

\* A text is the sequence of its pieces; these pieces are what str.strip removes
Whitespace == {"", " ", "\n"}

RECURSIVE lstrip(_)
lstrip(text) ==
    IF text = <<>> THEN <<>>
    ELSE IF Head(text) \in Whitespace THEN lstrip(Tail(text))
    ELSE text

RECURSIVE rstrip(_)
rstrip(text) ==
    IF text = <<>> THEN <<>>
    ELSE IF text[Len(text)] \in Whitespace THEN rstrip(SubSeq(text, 1, Len(text) - 1))
    ELSE text

\* str.strip
strip(text) == rstrip(lstrip(text))

Page(text, raises) == [text |-> text, raises |-> raises]

\* PdfReader(file_path): raises for a file that is no PDF, and gives the pages
\* otherwise; extract_text of a page gives its text or raises
PdfReader(f) ==
    IF f = "c.pdf" THEN [raised |-> TRUE, pages |-> <<>>]
    ELSE IF f = "p.pdf" THEN [raised |-> FALSE,
                              pages |-> <<Page("p1", FALSE), Page("p2", FALSE)>>]
    ELSE IF f = "x.pdf" THEN [raised |-> FALSE,
                              pages |-> <<Page("x1", FALSE), Page("x2", TRUE)>>]
    ELSE IF f = "s.pdf" THEN [raised |-> FALSE, pages |-> <<Page("", FALSE)>>]
    ELSE [raised |-> FALSE, pages |-> <<Page("u1", FALSE)>>]

Pdfs == {"p.pdf", "x.pdf", "s.pdf", "c.pdf"}

\* The loop of load_pdf: text += page.extract_text() + "\n" for each page, in
\* one try block with the reader; an exception of any page leaves the loop
RECURSIVE extract_pages(_, _)
extract_pages(pages, text) ==
    IF pages = <<>> THEN [raised |-> FALSE, text |-> text]
    ELSE IF Head(pages).raises THEN [raised |-> TRUE, text |-> <<>>]
    ELSE extract_pages(Tail(pages), text \o <<Head(pages).text, "\n">>)

\* load_pdf: the stripped text of the pages, or the exception logged and
\* raised again
load_pdf(f) ==
    LET reader == PdfReader(f)
        r == extract_pages(reader.pages, <<>>)
    IN  IF reader.raised THEN [raised |-> TRUE, text |-> <<>>, step |-> "PdfReader"]
        ELSE IF r.raised THEN [raised |-> TRUE, text |-> <<>>, step |-> "extract_text"]
        ELSE [raised |-> FALSE, text |-> strip(r.text), step |-> "ok"]

\* load_text_file: file.read() of the file opened as UTF-8, or the exception
\* logged and raised again
load_text_file(f) ==
    IF f = "bad.txt" THEN [raised |-> TRUE, text |-> <<>>]
    ELSE IF f = "e.txt" THEN [raised |-> FALSE, text |-> <<>>]
    ELSE IF f = "w.md" THEN [raised |-> FALSE, text |-> <<" ", "\n", " ">>]
    ELSE [raised |-> FALSE, text |-> <<f>>]

\* load_pdf or load_text_file, by the suffix
LoadFile(f) ==
    IF lower(suffix(f)) = ".pdf" THEN load_pdf(f) ELSE load_text_file(f)

\* DocumentProcessor.__init__ constructs the RecursiveCharacterTextSplitter,
\* whose constructor raises ValueError for an overlap larger than the chunk
\* size and takes every other pair.
DocumentProcessor(cfg) == [raised |-> cfg.CHUNK_OVERLAP > cfg.CHUNK_SIZE]

\* RecursiveCharacterTextSplitter.split_text on a text of n characters: the number
\* of chunks of the hard-cut path. A window holds CHUNK_SIZE characters; the
\* next one starts CHUNK_SIZE - CHUNK_OVERLAP characters further, and one
\* character further when the overlap is as large as the window.
split_text(n) ==
    LET size == config.CHUNK_SIZE
        advance == IF config.CHUNK_OVERLAP < size
                   THEN size - config.CHUNK_OVERLAP ELSE 1
    IN  IF n = 0 THEN 0
        ELSE IF n <= size THEN 1
        ELSE 1 + ((n - size) + advance - 1) \div advance

Chunk(f, t, i, n) == [filename |-> f, type |-> t, chunk_id |-> i, total_chunks |-> n]

\* chunk_documents that numbers the chunks of a document from 1
Mut_ChunksOf_CountsFromOne(f) ==
    LET n == split_text(FileLen(f))
    IN  [i \in 1..n |-> Chunk(f, FileType(f), i, n)]

\* chunk_documents on one document: chunk i of len(chunks), in order
ChunksOf(f) ==
    LET n == split_text(FileLen(f))
    IN  [i \in 1..n |-> Chunk(f, FileType(f), i - 1, n)]

\* A directory path: whether it exists and the files under it
Directory(files) == [exists |-> TRUE, files |-> files]

NoDirectory == [exists |-> FALSE, files |-> {}]

\* load_documents_from_directory whose loop ends at the first file that fails
RECURSIVE Mut_LoadFiles_StopsAtFailure(_)
Mut_LoadFiles_StopsAtFailure(paths) ==
    IF paths = <<>> THEN <<>>
    ELSE LET f == Head(paths)
             r == LoadFile(f)
         IN  IF lower(suffix(f)) \notin supported_extensions
             THEN Mut_LoadFiles_StopsAtFailure(Tail(paths))
             ELSE IF r.raised THEN <<>>
             ELSE IF strip(r.text) = <<>> THEN Mut_LoadFiles_StopsAtFailure(Tail(paths))
             ELSE <<f>> \o Mut_LoadFiles_StopsAtFailure(Tail(paths))

\* The loop of load_documents_from_directory over the paths rglob gives: a
\* file of a supported extension is loaded in its own try block and appended
\* when its content is more than whitespace
RECURSIVE LoadFiles(_)
LoadFiles(paths) ==
    IF paths = <<>> THEN <<>>
    ELSE LET f == Head(paths)
             r == LoadFile(f)
         IN  IF lower(suffix(f)) \notin supported_extensions THEN LoadFiles(Tail(paths))
             ELSE IF r.raised THEN LoadFiles(Tail(paths))
             ELSE IF strip(r.text) = <<>> THEN LoadFiles(Tail(paths))
             ELSE <<f>> \o LoadFiles(Tail(paths))

\* load_documents_from_directory: nothing for a path that does not exist, and
\* the documents of the files present otherwise, in directory order
load_documents_from_directory(directory) ==
    IF ~directory.exists THEN <<>>
    ELSE LoadFiles(SelectSeq(FileOrder, LAMBDA f : f \in directory.files))

RECURSIVE chunk_documents(_)
chunk_documents(documents) ==
    IF documents = <<>> THEN <<>>
    ELSE ChunksOf(Head(documents)) \o chunk_documents(Tail(documents))

process_directory(files) ==
    LET documents == load_documents_from_directory(Directory(files))
    IN  IF documents = <<>> THEN <<>> ELSE chunk_documents(documents)

\* Chunks handed to the store by callers (an uploaded file, a file of the
\* knowledge base)
U0 == Chunk("u.pdf", "PDF", 0, 1)
A0 == Chunk("a.txt", "TXT", 0, 1)

DocLists == {<<>>, <<U0>>, <<A0>>}

----------------------------------------------------------------------------
(* VectorStore *)

\* The embedding models a VectorStore can be constructed with: the configured
\* one and another one (an index persisted by an installation that used it)
OtherModel == "sentence-transformers/all-mpnet-base-v2"

Models == {EMBEDDING_MODEL, OtherModel}

\* VectorStore.__init__: the model name is kept, there is no index. docs are
\* the records of the index in insertion order, embedded the models whose
\* embedding function produced their vectors.
VectorStore(embedding_model) ==
    [embedding_model |-> embedding_model, init |-> FALSE, docs |-> <<>>,
     embedded |-> {}]

NoStore == VectorStore(EMBEDDING_MODEL)

Store(vs, documents, embedded) ==
    [vs EXCEPT !.init = TRUE, !.docs = documents, !.embedded = embedded]

\* FAISS.from_documents(documents, self.embeddings)
FromDocuments(vs, documents) == Store(vs, documents, {vs.embedding_model})

\* self.vector_store.add_documents(documents): embedded with self.embeddings
\* and put behind the records of the index
Appended(vs, documents) ==
    Store(vs, vs.docs \o documents, vs.embedded \cup {vs.embedding_model})

\* create_index that adds to the index it finds instead of replacing it
Mut_create_index_Appends(vs, documents, embedFails) ==
    IF documents = <<>> THEN [vs |-> vs, raised |-> FALSE]
    ELSE IF embedFails THEN [vs |-> vs, raised |-> TRUE]
    ELSE [vs |-> Appended(vs, documents), raised |-> FALSE]

\* create_index that raises for an empty document list
Mut_create_index_EmptyRaises(vs, documents, embedFails) ==
    IF documents = <<>> THEN [vs |-> vs, raised |-> TRUE]
    ELSE IF embedFails THEN [vs |-> vs, raised |-> TRUE]
    ELSE [vs |-> FromDocuments(vs, documents), raised |-> FALSE]

\* create_index that discards the index it holds when given no documents
Mut_create_index_EmptyDiscards(vs, documents, embedFails) ==
    IF documents = <<>> THEN [vs |-> VectorStore(vs.embedding_model), raised |-> FALSE]
    ELSE IF embedFails THEN [vs |-> vs, raised |-> TRUE]
    ELSE [vs |-> FromDocuments(vs, documents), raised |-> FALSE]

create_index(vs, documents, embedFails) ==
    IF documents = <<>> THEN [vs |-> vs, raised |-> FALSE]
    ELSE IF embedFails THEN [vs |-> vs, raised |-> TRUE]
    ELSE [vs |-> FromDocuments(vs, documents), raised |-> FALSE]

\* add_documents that builds a new index from the new documents alone
Mut_add_documents_Replaces(vs, documents, embedFails) ==
    create_index(vs, documents, embedFails)

\* add_documents that puts the new records in front of the stored ones
Mut_add_documents_Prepends(vs, documents, embedFails) ==
    IF documents = <<>> THEN [vs |-> vs, raised |-> FALSE]
    ELSE IF embedFails THEN [vs |-> vs, raised |-> TRUE]
    ELSE [vs |-> Store(vs, documents \o vs.docs,
                       vs.embedded \cup {vs.embedding_model}),
          raised |-> FALSE]

add_documents(vs, documents, embedFails) ==
    IF documents = <<>> THEN [vs |-> vs, raised |-> FALSE]
    ELSE IF ~vs.init THEN create_index(vs, documents, embedFails)
    ELSE IF embedFails THEN [vs |-> vs, raised |-> TRUE]
    ELSE [vs |-> Appended(vs, documents), raised |-> FALSE]

get_stats(vs) ==
    IF ~vs.init THEN [status |-> "not_initialized", document_count |-> 0]
    ELSE [status |-> "initialized", document_count |-> Len(vs.docs),
          embedding_model |-> vs.embedding_model]

\* FAISS ranks records by the distance of their embedding to the query's; the
\* embedding function is opaque, so the distance is a fixed table.
Queries == {"leadership", "upload"}

Distance(query, doc) ==
    IF query = "leadership"
    THEN (IF doc.filename = "a.txt" THEN 1 ELSE 2)
    ELSE (IF doc.filename = "u.pdf" THEN 1 ELSE 2)

\* doc goes behind every record at most as far as it (ties keep insertion order)
RECURSIVE InsertRanked(_, _, _)
InsertRanked(ranked, doc, query) ==
    IF ranked = <<>> THEN <<doc>>
    ELSE IF Distance(query, Head(ranked)) <= Distance(query, doc)
         THEN <<Head(ranked)>> \o InsertRanked(Tail(ranked), doc, query)
         ELSE <<doc>> \o ranked

RECURSIVE Ranked(_, _)
Ranked(docs, query) ==
    IF docs = <<>> THEN <<>>
    ELSE InsertRanked(Ranked(SubSeq(docs, 1, Len(docs) - 1), query),
                      docs[Len(docs)], query)

Min(a, b) == IF a <= b THEN a ELSE b

\* FAISS.similarity_search: the k nearest records, nearest first
TopK(docs, query, k) == SubSeq(Ranked(docs, query), 1, Min(k, Len(docs)))

\* similarity_search that hands back every record, whatever k
Mut_similarity_search_IgnoresK(vs, query, k, searchFails) ==
    IF ~vs.init THEN [raised |-> FALSE, result |-> <<>>]
    ELSE IF searchFails THEN [raised |-> FALSE, result |-> <<>>]
    ELSE [raised |-> FALSE, result |-> Ranked(vs.docs, query)]

\* similarity_search whose except clause re-raises, as create_index's does
Mut_similarity_search_Reraises(vs, query, k, searchFails) ==
    IF ~vs.init THEN [raised |-> FALSE, result |-> <<>>]
    ELSE IF searchFails THEN [raised |-> TRUE, result |-> <<>>]
    ELSE [raised |-> FALSE, result |-> TopK(vs.docs, query, k)]

similarity_search(vs, query, k, searchFails) ==
    IF ~vs.init THEN [raised |-> FALSE, result |-> <<>>]
    ELSE IF searchFails THEN [raised |-> FALSE, result |-> <<>>]
    ELSE [raised |-> FALSE, result |-> TopK(vs.docs, query, k)]

WithScore(docs, query) ==
    [i \in 1..Len(docs) |-> [doc |-> docs[i], score |-> Distance(query, docs[i])]]

similarity_search_with_score(vs, query, k, searchFails) ==
    IF ~vs.init THEN [raised |-> FALSE, result |-> <<>>]
    ELSE IF searchFails THEN [raised |-> FALSE, result |-> <<>>]
    ELSE [raised |-> FALSE, result |-> WithScore(TopK(vs.docs, query, k), query)]

\* The persisted index: faiss_index (written by FAISS.save_local) and metadata.pkl
FaissAbsent == [state |-> "absent", docs |-> <<>>, embedded |-> {}]
FaissCorrupt == [state |-> "corrupt", docs |-> <<>>, embedded |-> {}]
FaissOf(vs) == [state |-> "ok", docs |-> vs.docs, embedded |-> vs.embedded]
MetaAbsent == [state |-> "absent", embedding_model |-> "", document_count |-> 0]
MetaCorrupt == [state |-> "corrupt", embedding_model |-> "", document_count |-> 0]
MetaOf(vs) == [state |-> "ok", embedding_model |-> vs.embedding_model,
               document_count |-> Len(vs.docs)]

\* Where save_index can fail: before anything is written ("mkdir"), inside
\* save_local with faiss_index partly written ("faiss"), at the open of
\* metadata.pkl ("meta_open"), or in pickle.dump after the open truncated it
\* ("meta_dump").
SaveFailures == {"none", "mkdir", "faiss", "meta_open", "meta_dump"}

\* save_index whose except clause logs the error and returns
Mut_save_index_SwallowsErrors(vs, dk, failAt) ==
    IF ~vs.init \/ failAt = "mkdir" THEN [disk |-> dk, raised |-> FALSE]
    ELSE IF failAt = "faiss"
         THEN [disk |-> [dk EXCEPT !.faiss = FaissCorrupt], raised |-> FALSE]
    ELSE IF failAt = "meta_open"
         THEN [disk |-> [dk EXCEPT !.faiss = FaissOf(vs)], raised |-> FALSE]
    ELSE IF failAt = "meta_dump"
         THEN [disk |-> [faiss |-> FaissOf(vs), meta |-> MetaCorrupt],
               raised |-> FALSE]
    ELSE [disk |-> [faiss |-> FaissOf(vs), meta |-> MetaOf(vs)],
          raised |-> FALSE]

\* save_index that leaves the newest record out of what it writes
Mut_save_index_DropsLast(vs, dk, failAt) ==
    LET kept == [vs EXCEPT !.docs = SubSeq(vs.docs, 1, Len(vs.docs) - 1)]
    IN  IF ~vs.init THEN [disk |-> dk, raised |-> FALSE]
        ELSE IF failAt = "none"
             THEN [disk |-> [faiss |-> FaissOf(kept), meta |-> MetaOf(kept)],
                   raised |-> FALSE]
             ELSE [disk |-> dk, raised |-> TRUE]

\* save_index that records in metadata.pkl the number of records added since
\* the metadata it finds was written
Mut_save_index_CountsDelta(vs, dk, failAt) ==
    LET before == IF dk.meta.state = "ok" THEN dk.meta.document_count ELSE 0
    IN  IF ~vs.init THEN [disk |-> dk, raised |-> FALSE]
        ELSE IF failAt = "mkdir" THEN [disk |-> dk, raised |-> TRUE]
        ELSE IF failAt = "faiss"
             THEN [disk |-> [dk EXCEPT !.faiss = FaissCorrupt], raised |-> TRUE]
        ELSE IF failAt = "meta_open"
             THEN [disk |-> [dk EXCEPT !.faiss = FaissOf(vs)], raised |-> TRUE]
        ELSE IF failAt = "meta_dump"
             THEN [disk |-> [faiss |-> FaissOf(vs), meta |-> MetaCorrupt],
                   raised |-> TRUE]
        ELSE [disk |-> [faiss |-> FaissOf(vs),
                        meta |-> [MetaOf(vs) EXCEPT
                                    !.document_count = Len(vs.docs) - before]],
              raised |-> FALSE]

save_index(vs, dk, failAt) ==
    IF ~vs.init THEN [disk |-> dk, raised |-> FALSE]
    ELSE IF failAt = "mkdir" THEN [disk |-> dk, raised |-> TRUE]
    ELSE IF failAt = "faiss"
         THEN [disk |-> [dk EXCEPT !.faiss = FaissCorrupt], raised |-> TRUE]
    ELSE IF failAt = "meta_open"
         THEN [disk |-> [dk EXCEPT !.faiss = FaissOf(vs)], raised |-> TRUE]
    ELSE IF failAt = "meta_dump"
         THEN [disk |-> [faiss |-> FaissOf(vs), meta |-> MetaCorrupt],
               raised |-> TRUE]
    ELSE [disk |-> [faiss |-> FaissOf(vs), meta |-> MetaOf(vs)],
          raised |-> FALSE]

\* What can go wrong while load_index reads: nothing, an error reading or
\* unpickling metadata.pkl, an error in FAISS.load_local.
ReadFailures == {"none", "meta", "faiss"}

\* load_index whose try block does not cover the read of metadata.pkl
Mut_load_index_MetadataOutsideTry(vs, dk, readFails) ==
    IF dk.faiss.state = "absent" \/ dk.meta.state = "absent"
    THEN [vs |-> vs, ret |-> FALSE, raised |-> FALSE, step |-> "absent"]
    ELSE IF dk.meta.state = "corrupt" \/ readFails = "meta"
    THEN [vs |-> vs, ret |-> FALSE, raised |-> TRUE, step |-> "metadata"]
    ELSE IF dk.faiss.state = "corrupt" \/ readFails = "faiss"
    THEN [vs |-> vs, ret |-> FALSE, raised |-> FALSE, step |-> "faiss_index"]
    ELSE [vs |-> Store(vs, dk.faiss.docs, dk.faiss.embedded), ret |-> TRUE,
          raised |-> FALSE,
          step |-> "ok"]

\* load_index that drops the index in memory before it reads the files
Mut_load_index_DropsIndexFirst(vs, dk, readFails) ==
    IF dk.faiss.state = "absent" \/ dk.meta.state = "absent"
    THEN [vs |-> vs, ret |-> FALSE, raised |-> FALSE, step |-> "absent"]
    ELSE IF dk.meta.state = "corrupt" \/ readFails = "meta"
    THEN [vs |-> VectorStore(vs.embedding_model), ret |-> FALSE, raised |-> FALSE,
          step |-> "metadata"]
    ELSE IF dk.faiss.state = "corrupt" \/ readFails = "faiss"
    THEN [vs |-> VectorStore(vs.embedding_model), ret |-> FALSE, raised |-> FALSE,
          step |-> "faiss_index"]
    ELSE [vs |-> Store(vs, dk.faiss.docs, dk.faiss.embedded), ret |-> TRUE,
          raised |-> FALSE,
          step |-> "ok"]

load_index(vs, dk, readFails) ==
    IF dk.faiss.state = "absent" \/ dk.meta.state = "absent"
    THEN [vs |-> vs, ret |-> FALSE, raised |-> FALSE, step |-> "absent"]
    ELSE IF dk.meta.state = "corrupt" \/ readFails = "meta"
    THEN [vs |-> vs, ret |-> FALSE, raised |-> FALSE, step |-> "metadata"]
    ELSE IF dk.faiss.state = "corrupt" \/ readFails = "faiss"
    THEN [vs |-> vs, ret |-> FALSE, raised |-> FALSE, step |-> "faiss_index"]
    ELSE [vs |-> Store(vs, dk.faiss.docs, dk.faiss.embedded), ret |-> TRUE,
          raised |-> FALSE,
          step |-> "ok"]

\* shutil.rmtree removes the whole directory, or stops at an error having
\* removed nothing ("before") or faiss_index only ("partial"); errors are logged.
DeleteFailures == {"none", "before", "partial"}

delete_index(dk, deleteFails) ==
    IF deleteFails = "before" THEN dk
    ELSE IF deleteFails = "partial" THEN [dk EXCEPT !.faiss = FaissAbsent]
    ELSE [faiss |-> FaissAbsent, meta |-> MetaAbsent]

----------------------------------------------------------------------------
(* RAGSystem *)

\* What the environment does to one call: env.scanRaises (the DocumentProcessor
\* or the directory walk raises), env.embedFails (FAISS.from_documents or
\* FAISS.add_documents raises), env.failAt (SaveFailures), env.readFails
\* (ReadFailures). A call that raised does not reach the later steps, so a
\* fault is paired with no fault of a later step.
Envs == {e \in [scanRaises : BOOLEAN, embedFails : BOOLEAN,
                failAt : SaveFailures, readFails : ReadFailures] :
            /\ e.scanRaises => ~e.embedFails
            /\ (e.scanRaises \/ e.embedFails) => e.failAt = "none"}

\* The faults of a call that does not read the persisted index
WriteEnvs == {e \in Envs : e.readFails = "none"}

\* The faults of a call that neither reads the index nor scans the directory
AddEnvs == {e \in WriteEnvs : ~e.scanRaises}

Outcome(vs, dk, ret, step, reloaded, scanned, created, saved) ==
    [vs |-> vs, disk |-> dk, ret |-> ret, step |-> step, reloaded |-> reloaded,
     scanned |-> scanned, created |-> created, saved |-> saved]

\* The rebuild proper, after the scan found documents
RebuildFrom(vs, dk, documents, env) ==
    LET c == create_index(vs, documents, env.embedFails)
    IN  IF c.raised
        THEN Outcome(c.vs, dk, FALSE, "create_index", FALSE, TRUE, TRUE, FALSE)
        ELSE LET s == save_index(c.vs, dk, env.failAt)
             IN  IF s.raised
                 THEN Outcome(c.vs, s.disk, FALSE, "save_index",
                              FALSE, TRUE, TRUE, TRUE)
                 ELSE Outcome(c.vs, s.disk, TRUE, "ok", FALSE, TRUE, TRUE, TRUE)

\* A rebuild that removes the persisted index before it builds the new one
Mut_rebuild_DeletesFirst(vs, dk, files, env) ==
    IF DocumentProcessor(config).raised
    THEN Outcome(vs, dk, FALSE, "DocumentProcessor", FALSE, FALSE, FALSE, FALSE)
    ELSE IF env.scanRaises
    THEN Outcome(vs, dk, FALSE, "scan", FALSE, TRUE, FALSE, FALSE)
    ELSE LET documents == process_directory(files)
         IN  IF documents = <<>>
             THEN Outcome(vs, dk, FALSE, "no_documents", FALSE, TRUE, FALSE, FALSE)
             ELSE RebuildFrom(vs, delete_index(dk, "none"), documents, env)

\* A rebuild without the check for an empty document list
Mut_rebuild_NoEmptyCheck(vs, dk, files, env) ==
    IF DocumentProcessor(config).raised
    THEN Outcome(vs, dk, FALSE, "DocumentProcessor", FALSE, FALSE, FALSE, FALSE)
    ELSE IF env.scanRaises
    THEN Outcome(vs, dk, FALSE, "scan", FALSE, TRUE, FALSE, FALSE)
    ELSE RebuildFrom(vs, dk, process_directory(files), env)

_rebuild_knowledge_base(vs, dk, files, env) ==
    IF DocumentProcessor(config).raised
    THEN Outcome(vs, dk, FALSE, "DocumentProcessor", FALSE, FALSE, FALSE, FALSE)
    ELSE IF env.scanRaises
    THEN Outcome(vs, dk, FALSE, "scan", FALSE, TRUE, FALSE, FALSE)
    ELSE LET documents == process_directory(files)
         IN  IF documents = <<>>
             THEN Outcome(vs, dk, FALSE, "no_documents", FALSE, TRUE, FALSE, FALSE)
             ELSE RebuildFrom(vs, dk, documents, env)

\* load_knowledge_base that rebuilds even after the persisted index reloaded
Mut_load_knowledge_base_AlwaysRebuilds(vs, dk, files, force_rebuild, env) ==
    LET l == load_index(vs, dk, env.readFails)
        o == _rebuild_knowledge_base(IF force_rebuild THEN vs ELSE l.vs, dk, files, env)
    IN  [o EXCEPT !.reloaded = ~force_rebuild /\ l.ret]

\* load_knowledge_base that reports success whatever the rebuild returned
Mut_load_knowledge_base_IgnoresRebuild(vs, dk, files, force_rebuild, env) ==
    LET l == load_index(vs, dk, env.readFails)
    IN  IF ~force_rebuild /\ l.ret
        THEN Outcome(l.vs, dk, TRUE, "reloaded", TRUE, FALSE, FALSE, FALSE)
        ELSE [_rebuild_knowledge_base(IF force_rebuild THEN vs ELSE l.vs, dk, files, env)
                EXCEPT !.ret = TRUE]

load_knowledge_base(vs, dk, files, force_rebuild, env) ==
    LET l == load_index(vs, dk, env.readFails)
    IN  IF ~force_rebuild /\ l.ret
        THEN Outcome(l.vs, dk, TRUE, "reloaded", TRUE, FALSE, FALSE, FALSE)
        ELSE IF force_rebuild
             THEN _rebuild_knowledge_base(vs, dk, files, env)
             ELSE _rebuild_knowledge_base(l.vs, dk, files, env)

update_knowledge_base(vs, dk, files, env) ==
    _rebuild_knowledge_base(vs, dk, files, env)

add_documents_to_knowledge_base(vs, dk, documents, env) ==
    LET a == add_documents(vs, documents, env.embedFails)
    IN  IF a.raised
        THEN Outcome(a.vs, dk, FALSE, "add_documents", FALSE, FALSE, FALSE, FALSE)
        ELSE LET s == save_index(a.vs, dk, env.failAt)
             IN  IF s.raised
                 THEN Outcome(a.vs, s.disk, FALSE, "save_index",
                              FALSE, FALSE, FALSE, TRUE)
                 ELSE Outcome(a.vs, s.disk, TRUE, "ok", FALSE, FALSE, FALSE, TRUE)

retrieve_context(vs, query, k, searchFails) ==
    LET r == similarity_search(vs, query, k, searchFails)
    IN  IF r.raised THEN [raised |-> FALSE, result |-> <<>>] ELSE r

\* self.llm: None without OPENAI_API_KEY; a configured one answers or raises
LLMs == {"None", "answers", "raises"}

\* generate_answer: the message for a missing key, the text of the response,
\* or the message made from the exception of the LLM call
generate_answer(llm, question, context_docs) ==
    IF llm = "None" THEN "Error: OpenAI API key not configured"
    ELSE IF llm = "raises" THEN "Error generating answer"
    ELSE "response.content"

\* source_info of a retrieved chunk
source_info(doc) ==
    [filename |-> doc.filename, type |-> doc.type, chunk_id |-> doc.chunk_id]

\* The sources loop of answer_question without the membership test
RECURSIVE Mut_Sources_KeepsDuplicates(_, _)
Mut_Sources_KeepsDuplicates(context_docs, sources) ==
    IF context_docs = <<>> THEN sources
    ELSE Mut_Sources_KeepsDuplicates(Tail(context_docs),
                                     Append(sources, source_info(Head(context_docs))))

\* The sources loop of answer_question: source_info is appended unless it is
\* in sources already
RECURSIVE Sources(_, _)
Sources(context_docs, sources) ==
    IF context_docs = <<>> THEN sources
    ELSE LET info == source_info(Head(context_docs))
         IN  Sources(Tail(context_docs),
                     IF \E i \in DOMAIN sources : sources[i] = info
                     THEN sources ELSE Append(sources, info))

\* retrieve_k of answer_question when the caller gives none
DefaultRetrieveK == 4

\* answer_question: retrieve_context and generate_answer, neither of which
\* raises, then the response
answer_question(vs, llm, question, retrieve_k, searchFails) ==
    LET context_docs == retrieve_context(vs, question, retrieve_k, searchFails).result
        answer == generate_answer(llm, question, context_docs)
    IN  [raised |-> FALSE,
         context_docs |-> context_docs,
         response |-> [answer |-> answer,
                       sources |-> Sources(context_docs, <<>>),
                       context_count |-> Len(context_docs),
                       question |-> question]]

get_knowledge_base_stats(vs) == get_stats(vs)

----------------------------------------------------------------------------
(* The calls *)

\* The record of one call: ret is what the caller sees ("True", "False", "None",
\* "list" for a search result, "raised" for an exception), step is where the call
\* ended, reloaded/scanned/created/saved say whether load_index returned True and
\* whether process_directory, create_index and save_index were called; again
\* says that the call is a load_knowledge_base() that directly follows a
\* load_knowledge_base() that returned True.
Call(op, force, docs, ret, step, reloaded, scanned, created, saved, result) ==
    [op |-> op, force |-> force, docs |-> docs, ret |-> ret, step |-> step,
     reloaded |-> reloaded, scanned |-> scanned, created |-> created,
     saved |-> saved, result |-> result, again |-> FALSE]

\* No call in progress
Idle == [op |-> "none", at |-> "idle", docs |-> <<>>]

Sessions == {1, 2}

NoCall == Call("__init__", FALSE, <<>>, "None", "ok", FALSE, FALSE, FALSE, FALSE, <<>>)

Bool(b) == IF b THEN "True" ELSE "False"

\* A call of a RAGSystem method that returns a bool
RagCall(op, force, docs, o) ==
    Call(op, force, docs, Bool(o.ret), o.step, o.reloaded, o.scanned, o.created,
         o.saved, <<>>)

\* addLog after add_documents(documents) that did not raise
Logged(vs, documents) ==
    IF documents = <<>> THEN addLog
    ELSE IF ~vs.init THEN <<documents>>
    ELSE IF addLog # <<>> THEN Append(addLog, documents)
    ELSE <<>>

Init ==
    /\ vector_store = NoStore
    /\ disk = [faiss |-> FaissAbsent, meta |-> MetaAbsent]
    /\ kb \in SUBSET Files
    /\ last = NoCall
    /\ addLog = <<>>
    /\ peer = NoStore
    /\ pc = [s \in Sessions |-> Idle]
    /\ config = DefaultConfig
    /\ rag_loaded = FALSE

\* A new process (manage.py, a new web session, a bot start) constructs a
\* RAGSystem: its VectorStore holds no index.
NewRAGSystem ==
    /\ vector_store' = NoStore
    /\ last' = NoCall
    /\ addLog' = <<>>
    /\ UNCHANGED <<disk, kb, peer, pc, config, rag_loaded>>

\* A process starts: Config takes CHUNK_SIZE and CHUNK_OVERLAP from the
\* environment as they are, and a RAGSystem is constructed over it.
NewProcess ==
    \E cfg \in Configs :
        /\ config' = cfg
        /\ vector_store' = NoStore
        /\ last' = NoCall
        /\ addLog' = <<>>
        /\ UNCHANGED <<disk, kb, peer, pc, rag_loaded>>

\* A VectorStore is constructed with one of the embedding models.
NewVectorStore ==
    \E embedding_model \in Models :
        /\ vector_store' = VectorStore(embedding_model)
        /\ last' = NoCall
        /\ addLog' = <<>>
        /\ UNCHANGED <<disk, kb, peer, pc, config, rag_loaded>>

\* Files are put into or taken out of the knowledge base directory.
EditKnowledgeBase ==
    \E files \in SUBSET Files :
        /\ files # kb
        /\ kb' = files
        /\ last' = Call("edit", FALSE, <<>>, "None", "ok", FALSE, FALSE, FALSE, FALSE, <<>>)
        /\ UNCHANGED <<vector_store, disk, addLog, peer, pc, config, rag_loaded>>

CreateIndex ==
    \E documents \in DocLists, embedFails \in BOOLEAN :
        LET r == create_index(vector_store, documents, embedFails)
        IN  /\ Len(documents) <= MaxDocs
            /\ vector_store' = r.vs
            /\ last' = Call("create_index", FALSE, documents,
                            IF r.raised THEN "raised" ELSE "None",
                            IF r.raised THEN "create_index" ELSE "ok",
                            FALSE, FALSE, TRUE, FALSE, <<>>)
            /\ addLog' = IF documents # <<>> /\ ~r.raised THEN <<>> ELSE addLog
            /\ UNCHANGED <<disk, kb, peer, pc, config, rag_loaded>>

AddDocuments ==
    \E documents \in DocLists, embedFails \in BOOLEAN :
        LET r == add_documents(vector_store, documents, embedFails)
        IN  /\ Len(vector_store.docs) + Len(documents) <= MaxDocs
            /\ vector_store' = r.vs
            /\ last' = Call("add_documents", FALSE, documents,
                            IF r.raised THEN "raised" ELSE "None",
                            IF r.raised THEN "add_documents" ELSE "ok",
                            FALSE, FALSE, FALSE, FALSE, <<>>)
            /\ addLog' = IF r.raised THEN addLog ELSE Logged(vector_store, documents)
            /\ UNCHANGED <<disk, kb, peer, pc, config, rag_loaded>>

SearchCall(op, r, searchFails) ==
    Call(op, FALSE, <<>>, IF r.raised THEN "raised" ELSE "list",
         IF searchFails THEN "search_error" ELSE "ok",
         FALSE, FALSE, FALSE, FALSE, r.result)

SimilaritySearch ==
    \E query \in Queries, k \in 1..MaxK, searchFails \in BOOLEAN :
        /\ last' = SearchCall("similarity_search",
                              similarity_search(vector_store, query, k, searchFails),
                              searchFails)
        /\ UNCHANGED <<vector_store, disk, kb, addLog, peer, pc, config, rag_loaded>>

SimilaritySearchWithScore ==
    \E query \in Queries, k \in 1..MaxK, searchFails \in BOOLEAN :
        /\ last' = SearchCall("similarity_search_with_score",
                              similarity_search_with_score(vector_store, query, k,
                                                           searchFails),
                              searchFails)
        /\ UNCHANGED <<vector_store, disk, kb, addLog, peer, pc, config, rag_loaded>>

RetrieveContext ==
    \E query \in Queries, k \in 1..MaxK, searchFails \in BOOLEAN :
        /\ last' = SearchCall("retrieve_context",
                              retrieve_context(vector_store, query, k, searchFails),
                              searchFails)
        /\ UNCHANGED <<vector_store, disk, kb, addLog, peer, pc, config, rag_loaded>>

SaveIndex ==
    \E failAt \in SaveFailures :
        LET r == save_index(vector_store, disk, failAt)
        IN  /\ disk' = r.disk
            /\ last' = Call("save_index", FALSE, <<>>,
                            IF r.raised THEN "raised" ELSE "None",
                            IF r.raised THEN "save_index" ELSE "ok",
                            FALSE, FALSE, FALSE, TRUE, <<>>)
            /\ UNCHANGED <<vector_store, kb, addLog, peer, pc, config, rag_loaded>>

LoadIndex ==
    \E readFails \in ReadFailures :
        LET r == load_index(vector_store, disk, readFails)
        IN  /\ vector_store' = r.vs
            /\ last' = Call("load_index", FALSE, <<>>,
                            IF r.raised THEN "raised" ELSE Bool(r.ret), r.step,
                            r.ret, FALSE, FALSE, FALSE, <<>>)
            /\ addLog' = IF r.ret THEN <<>> ELSE addLog
            /\ UNCHANGED <<disk, kb, peer, pc, config, rag_loaded>>

DeleteIndex ==
    \E deleteFails \in DeleteFailures :
        /\ disk' = delete_index(disk, deleteFails)
        /\ last' = Call("delete_index", FALSE, <<>>, "None",
                        IF deleteFails = "none" THEN "ok" ELSE "rmtree",
                        FALSE, FALSE, FALSE, FALSE, <<>>)
        /\ UNCHANGED <<vector_store, kb, addLog, peer, pc, config, rag_loaded>>

\* The store a whole-index operation leaves is no longer the one add_documents built
Replaced(o) == o.reloaded \/ (o.created /\ o.step \in {"save_index", "ok"})

LoadKnowledgeBase ==
    \E force_rebuild \in BOOLEAN, env \in Envs :
        LET o == load_knowledge_base(vector_store, disk, kb, force_rebuild, env)
        IN  /\ force_rebuild => env \in WriteEnvs
            /\ vector_store' = o.vs
            /\ disk' = o.disk
            /\ last' = [RagCall("load_knowledge_base", force_rebuild, <<>>, o)
                            EXCEPT !.again = /\ ~force_rebuild
                                             /\ last.op = "load_knowledge_base"
                                             /\ ~last.force
                                             /\ last.ret = "True"]
            /\ addLog' = IF Replaced(o) THEN <<>> ELSE addLog
            /\ UNCHANGED <<kb, peer, pc, config, rag_loaded>>

UpdateKnowledgeBase ==
    \E env \in WriteEnvs :
        LET o == update_knowledge_base(vector_store, disk, kb, env)
        IN  /\ vector_store' = o.vs
            /\ disk' = o.disk
            /\ last' = RagCall("update_knowledge_base", FALSE, <<>>, o)
            /\ addLog' = IF Replaced(o) THEN <<>> ELSE addLog
            /\ UNCHANGED <<kb, peer, pc, config, rag_loaded>>

AddDocumentsToKnowledgeBase ==
    \E documents \in DocLists, env \in AddEnvs :
        LET o == add_documents_to_knowledge_base(vector_store, disk, documents, env)
        IN  /\ Len(vector_store.docs) + Len(documents) <= MaxDocs
            /\ vector_store' = o.vs
            /\ disk' = o.disk
            /\ last' = RagCall("add_documents_to_knowledge_base", FALSE, documents, o)
            /\ addLog' = IF o.step = "add_documents" THEN addLog
                         ELSE Logged(vector_store, documents)
            /\ UNCHANGED <<kb, peer, pc, config, rag_loaded>>

\* load_documents_from_directory on KNOWLEDGE_BASE_PATH as it is, or on a path
\* that does not exist
LoadDocumentsFromDirectory ==
    \E directory \in {Directory(kb), NoDirectory} :
        /\ last' = Call("load_documents_from_directory", FALSE, <<>>, "list",
                        IF directory.exists THEN "ok" ELSE "exists",
                        FALSE, FALSE, FALSE, FALSE,
                        load_documents_from_directory(directory))
        /\ UNCHANGED <<vector_store, disk, kb, addLog, peer, pc, config, rag_loaded>>

\* load_pdf on a PDF of the directory
LoadPdf ==
    \E f \in kb \cap Pdfs :
        LET r == load_pdf(f)
        IN  /\ last' = Call("load_pdf", FALSE, <<f>>,
                            IF r.raised THEN "raised" ELSE "str", r.step,
                            FALSE, FALSE, FALSE, FALSE, r.text)
            /\ UNCHANGED <<vector_store, disk, kb, addLog, peer, pc, config, rag_loaded>>

\* answer_question on the RAGSystem, with or without an LLM
AnswerQuestion ==
    \E question \in Queries, retrieve_k \in 1..MaxK, searchFails \in BOOLEAN,
       llm \in LLMs :
        LET r == answer_question(vector_store, llm, question, retrieve_k, searchFails)
        IN  /\ last' = Call("answer_question", FALSE, r.context_docs,
                            IF r.raised THEN "raised" ELSE "dict",
                            IF searchFails THEN "search_error" ELSE "ok",
                            FALSE, FALSE, FALSE, FALSE, r.response)
            /\ UNCHANGED <<vector_store, disk, kb, addLog, peer, pc, config, rag_loaded>>

\* A bot that sets rag_loaded whatever the load or refresh returned
Mut_LoadedAfter_SetsAlways(loaded, success) == TRUE

\* rag_loaded after a load or refresh of the bot: set on success, kept otherwise
LoadedAfter(loaded, success) == IF success THEN TRUE ELSE loaded

\* OrgCharBot.__init__ in a new bot process: RAGSystem(config), rag_loaded False
NewBot ==
    /\ vector_store' = NoStore
    /\ rag_loaded' = FALSE
    /\ last' = NoCall
    /\ addLog' = <<>>
    /\ pc' = [s \in Sessions |-> Idle]
    /\ UNCHANGED <<disk, kb, peer, config>>

\* setup_hook, once, before the bot handles messages: load_knowledge_base()
SetupHook ==
    \E env \in Envs :
        LET o == load_knowledge_base(vector_store, disk, kb, FALSE, env)
        IN  /\ last.op = "__init__"
            /\ vector_store' = o.vs
            /\ disk' = o.disk
            /\ last' = RagCall("load_knowledge_base", FALSE, <<>>, o)
            /\ rag_loaded' = LoadedAfter(rag_loaded, o.ret)
            /\ addLog' = IF Replaced(o) THEN <<>> ELSE addLog
            /\ UNCHANGED <<kb, peer, pc, config>>

\* The refresh command: update_knowledge_base()
RefreshKnowledgeBase ==
    \E env \in WriteEnvs :
        LET o == update_knowledge_base(vector_store, disk, kb, env)
        IN  /\ last.op # "__init__"
            /\ vector_store' = o.vs
            /\ disk' = o.disk
            /\ last' = RagCall("update_knowledge_base", FALSE, <<>>, o)
            /\ rag_loaded' = LoadedAfter(rag_loaded, o.ret)
            /\ addLog' = IF Replaced(o) THEN <<>> ELSE addLog
            /\ UNCHANGED <<kb, peer, pc, config>>

\* _answer_question of message handler s up to the typing indicator: the
\* reply that the knowledge base is not available, or the await before the
\* question is answered
BotAsk(s) ==
    /\ last.op # "__init__"
    /\ pc[s].at = "idle"
    /\ IF ~rag_loaded
       THEN /\ last' = Call("_answer_question", FALSE, <<>>, "not_available", "rag_loaded",
                            FALSE, FALSE, FALSE, FALSE, <<>>)
            /\ UNCHANGED pc
       ELSE /\ pc' = [pc EXCEPT ![s] = [op |-> "_answer_question", at |-> "typing",
                                        docs |-> <<>>]]
            /\ UNCHANGED last
    /\ UNCHANGED <<vector_store, disk, kb, addLog, peer, config, rag_loaded>>

\* _answer_question of message handler s from the typing indicator on:
\* answer_question(question) and the reply
BotAnswer(s) ==
    \E question \in Queries, searchFails \in BOOLEAN, llm \in LLMs :
        LET r == answer_question(vector_store, llm, question, DefaultRetrieveK,
                                   searchFails)
        IN  /\ pc[s].at = "typing"
            /\ pc' = [pc EXCEPT ![s] = Idle]
            /\ last' = Call("answer_question", FALSE, r.context_docs,
                            IF r.raised THEN "raised" ELSE "dict",
                            IF searchFails THEN "search_error" ELSE "ok",
                            FALSE, FALSE, FALSE, FALSE, r.response)
            /\ UNCHANGED <<vector_store, disk, kb, addLog, peer, config, rag_loaded>>

\* The VectorStore used on its own: a fresh instance, its methods, and
\* retrieve_context, which only delegates to similarity_search
InitStore ==
    /\ vector_store = NoStore
    /\ disk = [faiss |-> FaissAbsent, meta |-> MetaAbsent]
    /\ kb = {}
    /\ last = NoCall
    /\ addLog = <<>>
    /\ peer = NoStore
    /\ pc = [s \in Sessions |-> Idle]
    /\ config = DefaultConfig
    /\ rag_loaded = FALSE

NextStore ==
    \/ NewRAGSystem
    \/ CreateIndex
    \/ AddDocuments
    \/ SimilaritySearch
    \/ SimilaritySearchWithScore
    \/ SaveIndex
    \/ LoadIndex
    \/ DeleteIndex
    \/ RetrieveContext

SpecStore == InitStore /\ [][NextStore]_vars

\* VectorStore instances constructed with different embedding models over one
\* storage path
NextModels ==
    \/ NewVectorStore
    \/ CreateIndex
    \/ AddDocuments
    \/ SaveIndex
    \/ LoadIndex

SpecModels == InitStore /\ [][NextModels]_vars

\* Two web sessions: each holds its own RAGSystem in its session state, both
\* over the same VECTOR_DB_PATH and KNOWLEDGE_BASE_PATH. A session runs one
\* handler at a time; the handlers of different sessions run in different
\* threads and interleave at the calls that write the storage path.
IndexOf(s) == IF s = 1 THEN vector_store ELSE peer

NewIndexOf(s) == IF s = 1 THEN vector_store' ELSE peer'

\* self.vector_store of the session's VectorStore becomes vs
SetIndex(s, vs) ==
    IF s = 1 THEN vector_store' = vs /\ peer' = peer
    ELSE peer' = vs /\ vector_store' = vector_store

\* The faults of a call up to its save_index
NoSaveFault(envs) == {e \in envs : e.failAt = "none"}

\* A call up to the point where it calls save_index; o is what the call does
\* when save_index does not fail. A call that does not get to save_index
\* returns; one that gets there has assigned self.vector_store already.
Begin(s, op, docs, o) ==
    /\ pc[s].at = "idle"
    /\ SetIndex(s, o.vs)
    /\ IF o.saved
       THEN /\ pc' = [pc EXCEPT ![s] = [op |-> op, at |-> "save_index",
                                        docs |-> docs]]
            /\ UNCHANGED last
       ELSE /\ last' = RagCall(op, FALSE, docs, o)
            /\ UNCHANGED pc
    /\ UNCHANGED <<disk, kb, addLog, config, rag_loaded>>

\* The call in progress returns after its save_index returned or raised
Finished(call, ok) ==
    Call(call.op, FALSE, call.docs, Bool(ok), IF ok THEN "ok" ELSE "save_index",
         FALSE, call.op # "add_documents_to_knowledge_base",
         call.op # "add_documents_to_knowledge_base", TRUE, <<>>)

\* StreamlitApp.__init__ in a new session: RAGSystem(config) and
\* load_knowledge_base()
WebStart(s) ==
    \E env \in NoSaveFault(Envs) :
        Begin(s, "load_knowledge_base", <<>>,
              load_knowledge_base(NoStore, disk, kb, FALSE, env))

\* _refresh_knowledge_base: update_knowledge_base()
WebRefresh(s) ==
    \E env \in NoSaveFault(WriteEnvs) :
        Begin(s, "update_knowledge_base", <<>>,
              update_knowledge_base(IndexOf(s), disk, kb, env))

\* _process_uploaded_files: add_documents_to_knowledge_base(all_documents) for
\* a non-empty list of chunks
WebUpload(s) ==
    \E documents \in DocLists \ {<<>>}, env \in NoSaveFault(AddEnvs) :
        /\ Len(IndexOf(s).docs) + Len(documents) <= MaxDocs
        /\ Begin(s, "add_documents_to_knowledge_base", documents,
                 add_documents_to_knowledge_base(IndexOf(s), disk, documents, env))

\* save_index up to the return of FAISS.save_local: faiss_index is written,
\* metadata.pkl is not yet opened
SaveLocal(s) ==
    \E failAt \in {"none", "mkdir", "faiss"} :
        LET vs == IndexOf(s)
            r == save_index(vs, disk, IF failAt = "none" THEN "meta_open" ELSE failAt)
        IN  /\ pc[s].at = "save_index"
            /\ disk' = r.disk
            /\ IF vs.init /\ failAt = "none"
               THEN /\ pc' = [pc EXCEPT ![s].at = "metadata"]
                    /\ UNCHANGED last
               ELSE /\ pc' = [pc EXCEPT ![s] = Idle]
                    /\ last' = Finished(pc[s], ~r.raised)
            /\ UNCHANGED <<vector_store, peer, kb, addLog, config, rag_loaded>>

\* save_index from the open of metadata.pkl to its return
SaveMetadata(s) ==
    \E failAt \in {"none", "meta_open", "meta_dump"} :
        LET r == save_index(IndexOf(s), disk, failAt)
        IN  /\ pc[s].at = "metadata"
            /\ disk' = [disk EXCEPT !.meta = r.disk.meta]
            /\ pc' = [pc EXCEPT ![s] = Idle]
            /\ last' = Finished(pc[s], ~r.raised)
            /\ UNCHANGED <<vector_store, peer, kb, addLog, config, rag_loaded>>

\* _process_question: answer_question retrieves from the session's index
WebSearch(s) ==
    \E query \in Queries, k \in 1..MaxK, searchFails \in BOOLEAN :
        /\ pc[s].at = "idle"
        /\ last' = SearchCall("retrieve_context",
                              retrieve_context(IndexOf(s), query, k, searchFails),
                              searchFails)
        /\ UNCHANGED <<vector_store, disk, kb, addLog, peer, pc, config, rag_loaded>>

InitWeb ==
    /\ vector_store = NoStore
    /\ disk = [faiss |-> FaissAbsent, meta |-> MetaAbsent]
    /\ kb = {"a.txt", "e.txt"}
    /\ last = NoCall
    /\ addLog = <<>>
    /\ peer = NoStore
    /\ pc = [s \in Sessions |-> Idle]
    /\ config = DefaultConfig
    /\ rag_loaded = FALSE

NextWeb ==
    \E s \in Sessions :
        \/ WebStart(s)
        \/ WebRefresh(s)
        \/ WebUpload(s)
        \/ SaveLocal(s)
        \/ SaveMetadata(s)
        \/ WebSearch(s)

SpecWeb == InitWeb /\ [][NextWeb]_vars

\* Processes started under the configurations the environment can give
InitConfig ==
    /\ vector_store = NoStore
    /\ disk = [faiss |-> FaissAbsent, meta |-> MetaAbsent]
    /\ kb \in SUBSET Files
    /\ last = NoCall
    /\ addLog = <<>>
    /\ peer = NoStore
    /\ pc = [s \in Sessions |-> Idle]
    /\ config \in Configs
    /\ rag_loaded = FALSE

NextConfig ==
    \/ NewProcess
    \/ EditKnowledgeBase
    \/ LoadKnowledgeBase
    \/ UpdateKnowledgeBase

SpecConfig == InitConfig /\ [][NextConfig]_vars

\* The DocumentProcessor loaders over the directories they can be given
InitLoader ==
    /\ vector_store = NoStore
    /\ disk = [faiss |-> FaissAbsent, meta |-> MetaAbsent]
    /\ kb \in SUBSET TreeFiles
    /\ last = NoCall
    /\ addLog = <<>>
    /\ peer = NoStore
    /\ pc = [s \in Sessions |-> Idle]
    /\ config = DefaultConfig
    /\ rag_loaded = FALSE

NextLoader ==
    \/ LoadDocumentsFromDirectory
    \/ LoadPdf

SpecLoader == InitLoader /\ [][NextLoader]_vars

\* The Discord bot: one process at a time, its commands and message handlers
NextBot ==
    \/ NewBot
    \/ EditKnowledgeBase
    \/ SetupHook
    \/ RefreshKnowledgeBase
    \/ \E s \in Sessions : BotAsk(s) \/ BotAnswer(s)

SpecBot == Init /\ [][NextBot]_vars

\* Questions to a RAGSystem whose index is loaded, rebuilt and added to
NextAnswer ==
    \/ NewRAGSystem
    \/ LoadKnowledgeBase
    \/ AddDocumentsToKnowledgeBase
    \/ AnswerQuestion

SpecAnswer == InitWeb /\ [][NextAnswer]_vars

\* The RAGSystem as the applications drive it (manage.py, the web app, the bot)
NextRag ==
    \/ NewRAGSystem
    \/ EditKnowledgeBase
    \/ LoadKnowledgeBase
    \/ UpdateKnowledgeBase
    \/ AddDocumentsToKnowledgeBase
    \/ RetrieveContext

SpecRag == Init /\ [][NextRag]_vars

Next == NextStore \/ NextRag

Spec == Init /\ [][Next]_vars

----------------------------------------------------------------------------
(* Properties *)

\* A persisted index that load_index accepts and whose two files agree
DiskValid(dk) ==
    /\ dk.faiss.state = "ok"
    /\ dk.meta.state = "ok"
    /\ dk.meta.document_count = Len(dk.faiss.docs)

\* The step is a rebuild (load_knowledge_base(force_rebuild=True),
\* update_knowledge_base, or the fallback inside load_knowledge_base)
Rebuilt(call) ==
    /\ call.op \in {"load_knowledge_base", "update_knowledge_base"}
    /\ call.scanned

\* C1: a rebuild that returns False leaves the in-memory index exactly the one
\* held before the call, whatever the step it failed at (no documents,
\* create_index raising, save_index raising).
C1_FailedRebuildKeepsIndex ==
    [][(Rebuilt(last') /\ last'.ret = "False") => vector_store' = vector_store]_vars

\* C2: a save_index that fails leaves a previously valid persisted index
\* complete: faiss_index and metadata.pkl are the ones of the previous save.
C2_SaveIndexAtomic ==
    [][(last'.saved /\ last'.step = "save_index" /\ DiskValid(disk))
          => disk' = disk]_vars

\* C3: a rebuild that fails because no documents were found or because
\* create_index raised has not called save_index, and the persisted index is
\* what it was before the rebuild.
C3_EarlyFailureLeavesDisk ==
    [][(Rebuilt(last') /\ last'.ret = "False"
            /\ last'.step \in {"scan", "no_documents", "create_index"})
          => (~last'.saved /\ disk' = disk)]_vars

C3_Witness ==
    /\ last.op = "update_knowledge_base"
    /\ last.ret = "False"
    /\ last.step = "create_index"
    /\ DiskValid(disk)
    /\ vector_store.init

SearchOps == {"similarity_search", "similarity_search_with_score", "retrieve_context"}

\* C4: on an uninitialized index, and when the underlying search raises, the
\* three search calls return an empty list and raise nothing, for every query
\* and every k.
C4_SearchDegradesToEmpty ==
    [][(last'.op \in SearchOps /\ (~vector_store.init \/ last'.step = "search_error"))
          => (last'.ret = "list" /\ last'.result = <<>>)]_vars

C4_Witness ==
    /\ last.op = "similarity_search"
    /\ last.step = "search_error"
    /\ vector_store.init
    /\ last.result = <<>>

\* C5: load_index returns True and installs the persisted index when both
\* files are there and read without error; it returns False and raises nothing
\* when a file is absent, unreadable or fails to deserialize.
C5_LoadIndexReturnsBool ==
    [][last'.op = "load_index" =>
          /\ last'.ret \in {"True", "False"}
          /\ last'.ret = "True" =>
                /\ disk.faiss.state = "ok" /\ disk.meta.state = "ok"
                /\ vector_store'.init
                /\ vector_store'.docs = disk.faiss.docs
          /\ (\/ disk.faiss.state # "ok"
              \/ disk.meta.state # "ok"
              \/ last'.step \in {"absent", "metadata", "faiss_index"})
                => last'.ret = "False"
          /\ (disk.faiss.state = "ok" /\ disk.meta.state = "ok" /\ last'.step = "ok")
                => last'.ret = "True"]_vars

C5_Witness ==
    /\ last.op = "load_index"
    /\ last.ret = "False"
    /\ last.step = "metadata"
    /\ disk.meta.state = "corrupt"
    /\ disk.faiss.state = "ok"

\* C6 as stated: when the knowledge base directory holds no loadable document,
\* load_knowledge_base() returns False and the stats afterwards report
\* not_initialized.
C6_EmptyDirectoryLoadFails ==
    [][(last'.op = "load_knowledge_base" /\ ~last'.force
            /\ process_directory(kb) = <<>>)
          => /\ last'.ret = "False"
             /\ get_knowledge_base_stats(vector_store').status = "not_initialized"]_vars

\* C6 amended: when the knowledge base directory holds no loadable document and
\* no persisted index reloads, load_knowledge_base() returns False and leaves the
\* in-memory index as it was, so the stats afterwards report not_initialized if
\* the store was uninitialized before the call.
C6_EmptyDirectoryNoReloadFails ==
    [][(last'.op = "load_knowledge_base" /\ ~last'.force
            /\ process_directory(kb) = <<>> /\ ~last'.reloaded)
          => /\ last'.ret = "False"
             /\ vector_store' = vector_store
             /\ ~vector_store.init =>
                  get_knowledge_base_stats(vector_store').status = "not_initialized"]_vars

C6_Witness ==
    /\ last.op = "load_knowledge_base"
    /\ ~last.force
    /\ last.ret = "False"
    /\ last.step = "no_documents"
    /\ process_directory(kb) = <<>>
    /\ get_knowledge_base_stats(vector_store).status = "not_initialized"

\* C7: after load_knowledge_base(force_rebuild=True) or update_knowledge_base()
\* returned True, the in-memory index holds exactly the chunks of the current
\* knowledge base directory and that index is the persisted one.
C7_RebuildReplacesAndPersists ==
    [][(/\ \/ (last'.op = "load_knowledge_base" /\ last'.force)
           \/ last'.op = "update_knowledge_base"
        /\ last'.ret = "True")
          => /\ vector_store'.init
             /\ vector_store'.docs = process_directory(kb)
             /\ disk'.faiss = FaissOf(vector_store')
             /\ disk'.meta = MetaOf(vector_store')]_vars

C7_Witness ==
    /\ last.op = "update_knowledge_base"
    /\ last.ret = "True"
    /\ vector_store.docs = <<A0>>
    /\ DiskValid(disk)

\* C8: load_knowledge_base() without force_rebuild whose reload succeeded scans
\* nothing, calls neither create_index nor save_index and leaves the storage
\* path alone; it rebuilds only under force_rebuild or after a failed reload.
C8_ReloadDoesNotRebuild ==
    [][last'.op = "load_knowledge_base" =>
          /\ (~last'.force /\ last'.reloaded) =>
                /\ ~last'.scanned /\ ~last'.created /\ ~last'.saved
                /\ disk' = disk
                /\ last'.ret = "True"
          /\ last'.scanned => (last'.force \/ ~last'.reloaded)
          /\ last'.force => ~last'.reloaded]_vars

C8_Witness ==
    /\ last.op = "load_knowledge_base"
    /\ ~last.force
    /\ last.reloaded
    /\ vector_store.init
    /\ vector_store.docs # process_directory(kb)
    /\ process_directory(kb) # <<>>

\* C9: add_documents with a non-empty list on a store without an index does what
\* create_index does with that list; on a store with an index it appends the new
\* records behind the stored ones, which are all kept.
C9_AddCreatesOrAppends ==
    [][(last'.op = "add_documents" /\ last'.docs # <<>>) =>
          IF ~vector_store.init
          THEN /\ vector_store'
                    = create_index(vector_store, last'.docs, last'.ret = "raised").vs
               /\ last'.ret = "None" =>
                    (vector_store'.init /\ vector_store'.docs = last'.docs)
          ELSE last'.ret = "None" =>
                    /\ vector_store'.init
                    /\ vector_store'.docs = vector_store.docs \o last'.docs]_vars

C9_Witness ==
    /\ last.op = "add_documents"
    /\ last.ret = "None"
    /\ last.docs # <<>>
    /\ Len(vector_store.docs) = Len(last.docs) + 1

RECURSIVE Flatten(_)
Flatten(lists) ==
    IF lists = <<>> THEN <<>> ELSE Head(lists) \o Flatten(Tail(lists))

\* C10: a store built from nothing by add_documents calls alone holds the
\* records create_index holds for the concatenated lists, and every query with
\* every k gets the same results from both.
C10_AddsEqualOneCreate ==
    addLog # <<>> =>
        LET created == create_index(NoStore, Flatten(addLog), FALSE).vs
        IN  /\ vector_store.init = created.init
            /\ vector_store.docs = created.docs
            /\ \A query \in Queries, k \in 1..(MaxK + 1) :
                  similarity_search(vector_store, query, k, FALSE)
                      = similarity_search(created, query, k, FALSE)

C10_Witness ==
    /\ Len(addLog) = 2
    /\ addLog[1] = <<U0>>
    /\ addLog[2] = <<A0>>
    /\ last.op = "add_documents"

\* C11: save_index(p) on an initialized store followed by load_index(p) on a
\* fresh VectorStore instance, whatever model name it was constructed with,
\* makes the fresh instance's get_stats() equal to the original's (status,
\* document_count and embedding_model).
C11_RoundTripStats ==
    vector_store.init =>
        \A embedding_model \in Models :
            LET s == save_index(vector_store, disk, "none")
                l == load_index(VectorStore(embedding_model), s.disk, "none")
            IN  /\ ~s.raised
                /\ l.ret
                /\ get_stats(l.vs) = get_stats(vector_store)

SameRecords(r, docs) ==
    /\ Len(r) = Len(docs)
    /\ \A i \in DOMAIN docs :
          Cardinality({j \in DOMAIN r : r[j] = docs[i]})
              = Cardinality({j \in DOMAIN docs : docs[j] = docs[i]})

C14_OneModelPerIndex ==
    [][/\ Cardinality(vector_store'.embedded) <= 1
       /\ (last'.op = "save_index" /\ last'.ret = "None" /\ vector_store.init)
             => disk'.faiss.embedded = {disk'.meta.embedding_model}]_vars

\* C15: a save_index that fails on an initialized store raises; the
\* add_documents_to_knowledge_base or rebuild that called it returns False, and
\* the in-memory index stays initialized and searchable with the records it
\* held when save_index was called (the stored ones and the added ones, or the
\* chunks of the directory).
C15_SaveFailureSurfaced ==
    [][/\ \A failAt \in SaveFailures \ {"none"} :
             vector_store.init => save_index(vector_store, disk, failAt).raised
       /\ (last'.saved /\ last'.step = "save_index") =>
             /\ last'.ret = "False"
             /\ vector_store'.init
             /\ vector_store'
                  = IF last'.op = "add_documents_to_knowledge_base"
                    THEN add_documents(vector_store, last'.docs, FALSE).vs
                    ELSE create_index(vector_store, process_directory(kb), FALSE).vs
             /\ \A query \in Queries, k \in 1..MaxK :
                   similarity_search(vector_store', query, k, FALSE).result
                       = TopK(vector_store'.docs, query, k)]_vars

C15_Witness ==
    /\ last.op = "add_documents_to_knowledge_base"
    /\ last.saved
    /\ last.step = "save_index"
    /\ last.ret = "False"
    /\ vector_store.init
    /\ vector_store.docs = <<A0>> \o last.docs
    /\ disk.faiss = FaissCorrupt

\* C16: load_knowledge_base, update_knowledge_base and
\* add_documents_to_knowledge_base return True only when the index is
\* initialized and, unless the call only reloaded the persisted index, the
\* in-memory index is the one written to the storage path.
C16_TrueMeansDone ==
    [][(/\ last'.op \in {"load_knowledge_base", "update_knowledge_base",
                         "add_documents_to_knowledge_base"}
        /\ last'.ret = "True")
          => /\ vector_store'.init
             /\ ~last'.reloaded =>
                   /\ last'.saved
                   /\ disk' = [faiss |-> FaissOf(vector_store'),
                               meta |-> MetaOf(vector_store')]]_vars

\* C17: while a session's rebuild is in progress the index its searches read
\* changes only in the step in which save_index completes successfully: the
\* new index is not visible before it is persisted, and never if save_index
\* fails.
C17_NewIndexVisibleAfterPersist ==
    [][\A s \in Sessions :
          (/\ \/ pc[s].op = "update_knowledge_base"
              \/ pc'[s].op = "update_knowledge_base"
           /\ NewIndexOf(s) # IndexOf(s))
            => /\ pc[s].at = "metadata"
               /\ pc'[s].at = "idle"
               /\ last'.ret = "True"]_vars

\* C18: two save_index executions on the storage path never overlap, and
\* after a save_index that completed with no other call in progress
\* faiss_index and metadata.pkl are the two files that one save wrote.
C18_OneWriterAtATime ==
    /\ ~(\A s \in Sessions : pc[s].at = "metadata")
    /\ ((\A s \in Sessions : pc[s].at = "idle") /\ last.saved /\ last.ret = "True")
          => \E s \in Sessions :
                disk = [faiss |-> FaissOf(IndexOf(s)), meta |-> MetaOf(IndexOf(s))]

\* C19: under a configuration with chunk_overlap >= chunk_size (equality
\* included) no RAGSystem call is served, the configuration having been rejected
\* when it was loaded; in particular no rebuild reports such a configuration
\* as its own failure.
C19_OverlapRejectedAtLoad ==
    config.CHUNK_OVERLAP >= config.CHUNK_SIZE
        => last.op \notin {"load_knowledge_base", "update_knowledge_base"}

\* The documents handed to chunk_documents: files of the knowledge base
\* directory and an uploaded one
Documents == {"a.txt", "e.txt", "u.pdf"}

DocumentLists == UNION {[1..n -> Documents] : n \in 0..MaxDocs}

\* C20: in every output of chunk_documents each chunk has chunk_id <
\* total_chunks, the chunks of one document stand together with chunk_id
\* 0..total_chunks-1 in this order and the same total_chunks, which is their
\* number, and the documents' chunks come in the order of the input documents.
C20_ChunkNumbering ==
    ~DocumentProcessor(config).raised =>
        \A documents \in DocumentLists :
            LET out == chunk_documents(documents)
                heads == SelectSeq(out, LAMBDA c : c.chunk_id = 0)
                chunked == SelectSeq(documents, LAMBDA f : FileLen(f) > 0)
            IN  /\ \A i \in DOMAIN out :
                      LET b == i - out[i].chunk_id
                          n == out[i].total_chunks
                      IN  /\ out[i].chunk_id >= 0
                          /\ out[i].chunk_id < n
                          /\ b >= 1
                          /\ b + n - 1 <= Len(out)
                          /\ \A j \in 0..(n - 1) :
                                out[b + j] = Chunk(out[i].filename, out[i].type, j, n)
                /\ Len(heads) = Len(chunked)
                /\ \A d \in DOMAIN heads : heads[d].filename = chunked[d]

C20_Witness ==
    /\ last.op = "update_knowledge_base"
    /\ last.ret = "True"
    /\ vector_store.docs = chunk_documents(<<"a.txt">>)
    /\ Len(vector_store.docs) = 3
    /\ vector_store.docs[3].chunk_id = 2
    /\ vector_store.docs[3].total_chunks = 3

\* The files of a directory that load_documents_from_directory has to turn
\* into documents: supported extension, loaded without error, content that is
\* more than whitespace
Loadable(files) ==
    {f \in files : /\ lower(suffix(f)) \in supported_extensions
                   /\ ~LoadFile(f).raised
                   /\ strip(LoadFile(f).text) # <<>>}

\* C21: load_documents_from_directory returns a list whatever the files are:
\* one document for each file with a supported extension that loads without
\* error and has non-whitespace content, and for no other file, so a file
\* whose load raises or whose content is empty costs only itself; for a root
\* that does not exist the list is empty.
C21_DirectoryScanSkipsBadFiles ==
    last.op = "load_documents_from_directory" =>
        /\ last.ret = "list"
        /\ last.step = "exists" => last.result = <<>>
        /\ last.step = "ok" =>
              /\ {last.result[i] : i \in DOMAIN last.result} = Loadable(kb)
              /\ Len(last.result) = Cardinality(Loadable(kb))
              /\ Loadable(kb) = kb \cap {"a.txt", "B.TXT", "p.pdf"}

C21_Witness ==
    /\ last.op = "load_documents_from_directory"
    /\ last.step = "ok"
    /\ kb = TreeFiles
    /\ last.result = <<"a.txt", "B.TXT", "p.pdf">>

\* The text of the pages whose extraction does not fail, each followed by a
\* newline
RECURSIVE PagesThatExtract(_)
PagesThatExtract(pages) ==
    IF pages = <<>> THEN <<>>
    ELSE IF Head(pages).raises THEN PagesThatExtract(Tail(pages))
    ELSE <<Head(pages).text, "\n">> \o PagesThatExtract(Tail(pages))

\* C22: load_pdf on a file the reader opens does not raise, whether or not a
\* page fails text extraction, and returns the text of the pages that
\* extract, joined by newlines.
C22_FailingPageSkipped ==
    (last.op = "load_pdf" /\ ~PdfReader(last.docs[1]).raised) =>
        /\ last.ret = "str"
        /\ last.result = strip(PagesThatExtract(PdfReader(last.docs[1]).pages))

\* C23: in every state get_stats and get_knowledge_base_stats return a record
\* of exactly the fields status, document_count and embedding_model; status
\* is initialized exactly when the store holds an index, and otherwise it is
\* not_initialized with document_count 0.
C23_StatsThreeFields ==
    \A stats \in {get_stats(vector_store), get_knowledge_base_stats(vector_store)} :
        /\ DOMAIN stats = {"status", "document_count", "embedding_model"}
        /\ stats.status = "initialized" <=> vector_store.init
        /\ ~vector_store.init =>
              stats.status = "not_initialized" /\ stats.document_count = 0

\* C24: create_index with an empty document list returns without raising and
\* leaves the store as it was, with or without an index.
C24_EmptyCreateIsNoOp ==
    [][(last'.op = "create_index" /\ last'.docs = <<>>) =>
          /\ last'.ret = "None"
          /\ vector_store' = vector_store]_vars

C24_Witness ==
    /\ last.op = "create_index"
    /\ last.docs = <<>>
    /\ last.ret = "None"
    /\ vector_store.init
    /\ vector_store.docs = <<U0>>

\* C25: a store that holds an index holds one after every call on it:
\* create_index, add_documents, the searches, save_index, load_index and
\* delete_index as steps, and load_knowledge_base, update_knowledge_base and
\* add_documents_to_knowledge_base for every directory, argument and failure.
C25_InitializedForGood ==
    /\ [][(vector_store.init /\ last'.op # "__init__") =>
             get_stats(vector_store').status = "initialized"]_vars
    /\ [](vector_store.init =>
            /\ \A files \in SUBSET Files, force_rebuild \in BOOLEAN, env \in Envs :
                  load_knowledge_base(vector_store, disk, files, force_rebuild,
                                      env).vs.init
            /\ \A files \in SUBSET Files, env \in WriteEnvs :
                  update_knowledge_base(vector_store, disk, files, env).vs.init
            /\ \A documents \in DocLists, env \in AddEnvs :
                  add_documents_to_knowledge_base(vector_store, disk, documents,
                                                  env).vs.init)

C25_Witness ==
    /\ last.op = "load_index"
    /\ last.ret = "False"
    /\ last.step = "faiss_index"
    /\ vector_store.init
    /\ disk.meta.state = "ok"

\* C26: after load_knowledge_base or update_knowledge_base returned True the
\* statistics report initialized with at least one document, and
\* load_knowledge_base returns True exactly when the persisted index reloaded
\* or the rebuild went through scan, create_index and save_index.
C26_TrueMeansIndexed ==
    /\ (last.op \in {"load_knowledge_base", "update_knowledge_base"}
            /\ last.ret = "True") =>
          /\ get_knowledge_base_stats(vector_store).status = "initialized"
          /\ get_knowledge_base_stats(vector_store).document_count >= 1
    /\ last.op = "load_knowledge_base" =>
          (last.ret = "True" <=>
              \/ last.reloaded
              \/ last.scanned /\ last.created /\ last.saved /\ last.step = "ok")

C26_Witness ==
    /\ last.op = "load_knowledge_base"
    /\ last.ret = "True"
    /\ last.reloaded
    /\ get_knowledge_base_stats(vector_store).document_count = 2

\* C27: a load_index that returns False leaves the store as it was: the index
\* it held, if any, is still the one that is searched.
C27_FailedLoadKeepsIndex ==
    [][(last'.op = "load_index" /\ last'.ret = "False") =>
          vector_store' = vector_store]_vars

C27_Witness ==
    /\ last.op = "load_index"
    /\ last.ret = "False"
    /\ last.step = "metadata"
    /\ vector_store.init
    /\ Len(vector_store.docs) = 2

\* C28 as stated: after every save_index that returned without an error the
\* document_count of metadata.pkl is the document_count in memory.
C28_SaveWritesWholeIndexAsStated ==
    (last.op = "save_index" /\ last.ret = "None" /\ disk.meta.state = "ok") =>
        disk.meta.document_count = get_stats(vector_store).document_count

\* C28: after every save_index on a store that holds an index, when it
\* returned without an error, metadata.pkl and faiss_index hold the whole
\* index in memory: the document_count of the metadata is the one in memory.
C28_SaveWritesWholeIndex ==
    (last.op = "save_index" /\ last.ret = "None" /\ vector_store.init) =>
        /\ disk.meta.state = "ok"
        /\ disk.meta.document_count = get_stats(vector_store).document_count
        /\ disk.faiss = FaissOf(vector_store)

C28_Witness ==
    /\ last.op = "save_index"
    /\ last.ret = "None"
    /\ vector_store.docs = <<U0, A0>>
    /\ disk.meta.document_count = 2

\* C29: in the Discord bot rag_loaded implies that the index is initialized;
\* it becomes true only in a step where load_knowledge_base or
\* update_knowledge_base returned True, a refresh that returned False leaves
\* it as it was, no step of a running bot sets it back to false, and
\* answer_question is called only while it is true.
C29_RagLoadedMeansInitialized ==
    /\ [](rag_loaded => get_knowledge_base_stats(vector_store).status = "initialized")
    /\ [][/\ (rag_loaded' /\ ~rag_loaded) =>
                /\ last'.op \in {"load_knowledge_base", "update_knowledge_base"}
                /\ last'.ret = "True"
          /\ (last'.op = "update_knowledge_base" /\ last'.ret = "False")
                => rag_loaded' = rag_loaded
          /\ (rag_loaded /\ last'.op # "__init__") => rag_loaded'
          /\ last'.op = "answer_question" => rag_loaded]_vars

C29_Witness ==
    /\ rag_loaded
    /\ last.op = "update_knowledge_base"
    /\ last.ret = "False"
    /\ last.step = "save_index"
    /\ vector_store.init

\* First position of a source among the source_info of the retrieved chunks
FirstAt(info, context_docs) ==
    CHOOSE i \in DOMAIN context_docs :
        /\ source_info(context_docs[i]) = info
        /\ \A j \in 1..(i - 1) : source_info(context_docs[j]) # info

\* C30: answer_question does not raise and returns answer, sources,
\* context_count and question; context_count is the number of retrieved
\* chunks, sources holds the (filename, type, chunk_id) of each retrieved
\* chunk once, in the order of first occurrence; without an index there are no
\* sources and context_count is 0; without an LLM the chunks are retrieved and
\* the sources reported all the same.
C30_AnswerAlwaysReturned ==
    /\ last.op = "answer_question" =>
          LET response == last.result
              context_docs == last.docs
              sources == response.sources
          IN  /\ last.ret = "dict"
              /\ DOMAIN response = {"answer", "sources", "context_count", "question"}
              /\ response.context_count = Len(context_docs)
              /\ {sources[i] : i \in DOMAIN sources}
                    = {source_info(context_docs[i]) : i \in DOMAIN context_docs}
              /\ \A i, j \in DOMAIN sources :
                    i < j => /\ sources[i] # sources[j]
                             /\ FirstAt(sources[i], context_docs)
                                   < FirstAt(sources[j], context_docs)
              /\ ~vector_store.init =>
                    sources = <<>> /\ response.context_count = 0
    /\ \A question \in Queries, retrieve_k \in 1..MaxK, searchFails \in BOOLEAN :
          LET r == answer_question(vector_store, "None", question, retrieve_k,
                                   searchFails)
          IN  /\ r.context_docs
                    = retrieve_context(vector_store, question, retrieve_k,
                                       searchFails).result
              /\ \A llm \in LLMs :
                    LET a == answer_question(vector_store, llm, question, retrieve_k,
                                             searchFails).response
                    IN  /\ a.sources = r.response.sources
                        /\ a.context_count = r.response.context_count

C30_Witness ==
    /\ last.op = "answer_question"
    /\ last.result.answer = "Error: OpenAI API key not configured"
    /\ last.docs = <<A0, A0>>
    /\ last.result.context_count = 2
    /\ last.result.sources = <<source_info(A0)>>
====
